---- MODULE Spec2Model ----
(***************************************************************************)
(* Model of mirror-selector.go: main's parse loop over the sibling nodes   *)
(* of the mirror list, followed by the scoring pipeline (scoringDispatcher,*)
(* the score goroutines and resultsAccumulator) and its three channels.    *)
(*                                                                         *)
(* Strings are sequences of atoms: an atom is a word, a fixed prefix such  *)
(* as "Type: ", or a separator ("," or " ").  The document is read lazily: *)
(* each iteration of the loop draws the next sibling node.  The marker     *)
(* lists (siteDivs, ...) hold the children of the content div that satisfy *)
(* their XPath predicate, in document order, and the loop visits every     *)
(* sibling except the <tt> payloads it consumes, which belong to no list;  *)
(* so "node == xDivs[xIndex+1]" holds exactly when the node satisfies the  *)
(* predicate of xDivs, and the model tests the predicate.                  *)
(***************************************************************************)
EXTENDS Integers, Sequences, FiniteSets, TLC

\* ---------------------------------------------------------------- bounds
\* Number of sibling nodes a document may hold after which only the end of
\* the document is read.
MaxNodes == 7
\* Capacity of the scores channel.  The source sets 32; the model scales it
\* down so that site lists longer than the buffer are within the bounds.
scoreBufferSize == 2
\* Longest site list handed directly to scoringDispatcher (PipelineSpec):
\* one more than the scores channel holds.
MaxSites == scoreBufferSize + 1

\* ------------------------------------------------------------- constants
\* make(chan bool): the channel made without a buffer.
noMoreScorersCap_Unbuffered == 1 - 1

\* make(chan bool, 1)
noMoreScorersCap == 1
\* the address of main's variable s
sAddr == 1

\* ------------------------------------------------------------ strings
RECURSIVE Split(_, _)
Split(str, sep) ==
    IF str = <<>> THEN << <<>> >>
    ELSE IF Head(str) = sep THEN << <<>> >> \o Split(Tail(str), sep)
    ELSE LET r == Split(Tail(str), sep)
         IN  << <<Head(str)>> \o Head(r) >> \o Tail(r)

RECURSIVE TrimLeft(_)
TrimLeft(str) ==
    IF str # <<>> /\ Head(str) = " " THEN TrimLeft(Tail(str)) ELSE str

RECURSIVE TrimRight(_)
TrimRight(str) ==
    IF str # <<>> /\ str[Len(str)] = " "
    THEN TrimRight(SubSeq(str, 1, Len(str) - 1)) ELSE str

TrimSpace(str) == TrimRight(TrimLeft(str))

TrimPrefix(str, prefix) ==
    IF str # <<>> /\ Head(str) = prefix THEN Tail(str) ELSE str

TrimSuffix(str, suffix) ==
    IF str # <<>> /\ str[Len(str)] = suffix
    THEN SubSeq(str, 1, Len(str) - 1) ELSE str

StartsWith(str, prefix) == str # <<>> /\ Head(str) = prefix

\* ------------------------------------------------------------ url.URL
NilURL == [nil |-> TRUE, Scheme |-> "", Host |-> <<>>, Path |-> <<>>]

\* The outcome of url.Parse on an href attribute: an error, or a URL.
BadHref  == [err |-> TRUE,  Scheme |-> "", Host |-> <<>>, Path |-> <<>>]
GoodHref == [err |-> FALSE, Scheme |-> "https", Host |-> <<"a">>,
             Path |-> <<"/debian/">>]

\* ------------------------------------------------------------ html nodes
NilNode == [kind |-> "nil", text |-> <<>>, href |-> BadHref]

Elem(k) == [kind |-> k, text |-> <<>>, href |-> BadHref]
Text(t) == [kind |-> "text", text |-> t, href |-> BadHref]
TT(t, h) == [kind |-> "tt", text |-> t, href |-> h]

Protocols == {"HTTP", "rsync", "HTTPS"}

NodeSet ==
    { Elem("h3"), Elem("br"), Text(<<"x">>), Text(<<"Site:">>),
      Text(<<" ", "Type: ", "leaf">>),
      Text(<<"Includes architectures: ", "amd64", " ", "i386">>) }
    \cup { Text(<<"Packages over ", p, ": ">>) : p \in Protocols }
    \cup { TT(<<"a">>, GoodHref), TT(<<"a", ",", "b">>, GoodHref),
           TT(<<>>, BadHref) }

\* htmlquery.InnerText
InnerText(n) == n.text

\* htmlquery.FindOne(node, "self::tt") != nil
IsTT(n) == n.kind = "tt"

\* The XPath predicates of the marker lists.
IsCountryDiv(n) == n.kind = "h3"
IsBreakDiv(n) == n.kind = "br"
IsSiteDiv(n) == n.kind = "text" /\ TrimSpace(n.text) = <<"Site:">>
IsPackageURLDiv(n) ==
    n.kind = "text" /\ StartsWith(TrimSpace(n.text), "Packages over ")
IsArchDiv(n) ==
    n.kind = "text" /\ StartsWith(TrimSpace(n.text), "Includes architectures: ")
IsTypeDiv(n) == n.kind = "text" /\ StartsWith(TrimSpace(n.text), "Type: ")

\* ------------------------------------------------------------ type site
EmptyMap == [k \in {} |-> NilURL]

\* The zero value of site: nil slices, nil map.
ZeroSite ==
    [Hosts |-> <<>>, SiteType |-> <<>>, Architectures |-> <<>>,
     mapNil |-> TRUE, PackProtocols |-> EmptyMap, Score |-> 0]

\* site{PackProtocols: make(map[string]*url.URL)}
NewSite == [ZeroSite EXCEPT !.mapNil = FALSE]

MapSet(m, k, v) == [x \in DOMAIN m \cup {k} |-> IF x = k THEN v ELSE m[x]]

Addr == 1..MaxSites

VARIABLES
    mpc,              \* main: "parse", "fatal", "panic", "dispatch",
                      \*       "accumulate", "done"
    node,             \* the sibling node the loop is at
    consumed,         \* number of sibling nodes read so far
    countryIndex, siteIndex, packageURLIndex, archIndex, typeIndex, breakIndex,
    heap,             \* site records by address; main's s lives at sAddr
    sites,            \* []*site
    dpc, di,          \* scoringDispatcher: position, index of the range loop
    tpc,              \* score goroutine of sites[i]: "none", "write", "send", "exit"
    scores,           \* the scores channel: queued (pointer, sending goroutine)
    noMoreScorers,    \* number of values queued in noMoreScorers
    apc,              \* resultsAccumulator: "idle", "select", "returned"
    done, scorers, results,
    created,          \* history: creation signals received by the Accumulator
    resultsFrom       \* history: the goroutine each entry of results came from

parseVars == <<node, consumed, countryIndex, siteIndex, packageURLIndex, archIndex,
               typeIndex, breakIndex>>
pipeVars == <<dpc, di, tpc, scores, noMoreScorers, apc, done, scorers, results,
              created, resultsFrom>>
vars == <<mpc, parseVars, heap, sites, pipeVars>>

s == heap[sAddr]

PipeIdle ==
    /\ dpc = "idle" /\ di = 0
    /\ tpc = [i \in 1..0 |-> "none"]
    /\ scores = <<>>
    /\ noMoreScorers = 0
    /\ apc = "idle"
    /\ done = FALSE /\ scorers = 0 /\ results = <<>>
    /\ created = 0 /\ resultsFrom = <<>>

Init ==
    /\ mpc = "parse"
    /\ node = Text(<<"x">>)
    /\ consumed = 0
    /\ countryIndex = -1 /\ siteIndex = -1 /\ packageURLIndex = -1
    /\ archIndex = -1 /\ typeIndex = -1 /\ breakIndex = -1
    /\ heap = [a \in Addr |-> ZeroSite]
    /\ sites = <<>>
    /\ PipeIdle

\* node = node.NextSibling: the nodes the next read can return.  The walk
\* starts at countryDivs[0], and a document of MaxNodes nodes has ended.
NextNodes(c) ==
    IF c = 0 THEN {Elem("h3")}
    ELSE IF c < MaxNodes THEN NodeSet \cup {NilNode}
    ELSE {NilNode}


\* The branch of the if/else-if chain that a non-nil node takes.
Classify(n) ==
    IF IsBreakDiv(n) THEN "break"
    ELSE IF IsCountryDiv(n) THEN "country"
    ELSE IF IsSiteDiv(n) THEN "site"
    ELSE IF IsPackageURLDiv(n) THEN "packageURL"
    ELSE IF IsTypeDiv(n) THEN "type"
    ELSE IF IsArchDiv(n) THEN "arch"
    ELSE "ignore"

Read(n, branch) ==
    /\ mpc = "parse"
    /\ n \in NextNodes(consumed)
    /\ n # NilNode
    /\ Classify(n) = branch

\* The payload read of the site and package URL branches counts as a node
\* only when there is one.
AfterPayload(p) == IF p = NilNode THEN consumed + 1 ELSE consumed + 2

\* node == nil: the end of the document.
ParseEnd ==
    /\ mpc = "parse"
    /\ NilNode \in NextNodes(consumed)
    /\ node' = NilNode
    /\ sites' = Append(sites, sAddr)
    /\ mpc' = "dispatch"
    /\ UNCHANGED <<consumed, countryIndex, siteIndex, packageURLIndex,
                   archIndex, typeIndex, breakIndex, heap, pipeVars>>

ParseBreak ==
    \E n \in NodeSet :
        /\ Read(n, "break")
        /\ breakIndex' = breakIndex + 1
        /\ node' = n
        /\ consumed' = consumed + 1
        /\ UNCHANGED <<mpc, countryIndex, siteIndex, packageURLIndex,
                       archIndex, typeIndex, heap, sites, pipeVars>>

ParseCountry ==
    \E n \in NodeSet :
        /\ Read(n, "country")
        /\ countryIndex' = countryIndex + 1
        /\ node' = n
        /\ consumed' = consumed + 1
        /\ UNCHANGED <<mpc, breakIndex, siteIndex, packageURLIndex,
                       archIndex, typeIndex, heap, sites, pipeVars>>

\* The shape test of the payload left out: only a missing node is fatal.
PayloadMissing_NilOnly(p) == p = NilNode

\* node == nil || htmlquery.FindOne(node, "self::tt") == nil
PayloadMissing(p) == p = NilNode \/ ~IsTT(p)

\* "Save old site": the sites slice after the site branch's append.
SaveOldSite(list, index) ==
    IF index # -1 THEN Append(list, sAddr) ELSE list

ParseSite ==
    \E n \in NodeSet :
        /\ Read(n, "site")
        /\ sites' = SaveOldSite(sites, siteIndex)
        /\ siteIndex' = siteIndex + 1
        /\ \E p \in NextNodes(consumed + 1) :
              /\ node' = p
              /\ consumed' = AfterPayload(p)
              /\ IF PayloadMissing(p)
                 THEN /\ mpc' = "fatal"
                      /\ heap' = [heap EXCEPT ![sAddr] = NewSite]
                 ELSE /\ mpc' = mpc
                      /\ heap' = [heap EXCEPT ![sAddr] =
                            [NewSite EXCEPT !.Hosts = Split(InnerText(p), ",")]]
        /\ UNCHANGED <<countryIndex, breakIndex, packageURLIndex, archIndex,
                       typeIndex, pipeVars>>

\* The switch on protocol: the URL bound to the protocol, or how the run
\* ends (log.Fatalln on a parse error, a panic on s.Hosts[0] of no hosts).
ResolveURL(protocol, p, rec) ==
    IF protocol = <<"HTTP">>
    THEN IF p.href.err
         THEN [out |-> "fatal", URL |-> NilURL]
         ELSE [out |-> "ok",
               URL |-> [nil |-> FALSE, Scheme |-> "http",
                        Host |-> p.href.Host, Path |-> p.href.Path]]
    ELSE IF protocol = <<"rsync">>
    THEN IF rec.Hosts = <<>>
         THEN [out |-> "panic", URL |-> NilURL]
         ELSE [out |-> "ok",
               URL |-> [nil |-> FALSE, Scheme |-> "rsync",
                        Host |-> rec.Hosts[1],
                        Path |-> TrimSpace(InnerText(p))]]
    ELSE [out |-> "ok", URL |-> NilURL]

ParsePackageURL ==
    \E n \in NodeSet :
        /\ Read(n, "packageURL")
        /\ packageURLIndex' = packageURLIndex + 1
        /\ LET protocol ==
                   TrimSuffix(TrimPrefix(InnerText(n), "Packages over "), ": ")
           IN  \E p \in NextNodes(consumed + 1) :
                  /\ node' = p
                  /\ consumed' = AfterPayload(p)
                  /\ IF PayloadMissing(p)
                     THEN mpc' = "fatal" /\ heap' = heap
                     ELSE LET r == ResolveURL(protocol, p, s)
                          IN  IF r.out # "ok"
                              THEN mpc' = r.out /\ heap' = heap
                              ELSE IF s.mapNil
                              THEN \* assignment to entry in nil map
                                   mpc' = "panic" /\ heap' = heap
                              ELSE /\ mpc' = mpc
                                   /\ heap' = [heap EXCEPT
                                         ![sAddr].PackProtocols =
                                             MapSet(@, protocol, r.URL)]
        /\ UNCHANGED <<countryIndex, breakIndex, siteIndex, archIndex,
                       typeIndex, sites, pipeVars>>

ParseType ==
    \E n \in NodeSet :
        /\ Read(n, "type")
        /\ typeIndex' = typeIndex + 1
        /\ heap' = [heap EXCEPT ![sAddr].SiteType =
                        TrimPrefix(TrimSpace(InnerText(n)), "Type: ")]
        /\ node' = n
        /\ consumed' = consumed + 1
        /\ UNCHANGED <<mpc, countryIndex, breakIndex, siteIndex,
                       packageURLIndex, archIndex, sites, pipeVars>>

ParseArch ==
    \E n \in NodeSet :
        /\ Read(n, "arch")
        /\ archIndex' = archIndex + 1
        /\ heap' = [heap EXCEPT ![sAddr].Architectures =
                        Split(TrimPrefix(TrimSpace(InnerText(n)),
                                         "Includes architectures: "), " ")]
        /\ node' = n
        /\ consumed' = consumed + 1
        /\ UNCHANGED <<mpc, countryIndex, breakIndex, siteIndex,
                       packageURLIndex, typeIndex, sites, pipeVars>>

ParseIgnore ==
    \E n \in NodeSet :
        /\ Read(n, "ignore")
        /\ node' = n
        /\ consumed' = consumed + 1
        /\ UNCHANGED <<mpc, countryIndex, breakIndex, siteIndex,
                       packageURLIndex, archIndex, typeIndex, heap, sites,
                       pipeVars>>

ParseNext ==
    \/ ParseEnd \/ ParseBreak \/ ParseCountry \/ ParseSite
    \/ ParsePackageURL \/ ParseType \/ ParseArch \/ ParseIgnore

\* ------------------------------------------------------------ pipeline
\* go scoringDispatcher(sites)
MainGo ==
    /\ mpc = "dispatch"
    /\ mpc' = "accumulate"
    /\ dpc' = "range"
    /\ di' = 0
    /\ tpc' = [i \in 1..Len(sites) |-> "none"]
    /\ UNCHANGED <<parseVars, heap, sites, scores, noMoreScorers, apc, done,
                   scorers, results, created, resultsFrom>>

\* The filter of the dispatcher: "if true".
MatchesCriteria(rec) == TRUE

\* The goroutine launched before its creation is signalled.
DispatchSteps_LaunchFirst == <<"launch", "signal">>

\* The body of the range loop for a record that passes the filter, in order.
DispatchSteps == <<"signal", "launch">>

\* for _, s := range sites: the next record that passes the filter, if any.
DispRange ==
    /\ dpc = "range"
    /\ IF di < Len(sites)
       THEN /\ di' = di + 1
            /\ dpc' = IF MatchesCriteria(heap[sites[di + 1]])
                      THEN DispatchSteps[1] ELSE "range"
       ELSE /\ di' = di
            /\ dpc' = "nomore"
    /\ UNCHANGED <<mpc, parseVars, heap, sites, tpc, scores, noMoreScorers,
                   apc, done, scorers, results, created, resultsFrom>>

AfterStep(step) ==
    IF step = DispatchSteps[1] THEN DispatchSteps[2] ELSE "range"

\* scorerCreated <- true meets case <-scorerCreated: the channel has no
\* buffer, so the send and the receive are one step.
AccCreated ==
    /\ dpc = "signal"
    /\ apc = "select"
    /\ dpc' = AfterStep("signal")
    /\ scorers' = scorers + 1
    /\ created' = created + 1
    /\ UNCHANGED <<mpc, parseVars, heap, sites, di, tpc, scores,
                   noMoreScorers, apc, done, results, resultsFrom>>

\* go score(s)
DispLaunch ==
    /\ dpc = "launch"
    /\ dpc' = AfterStep("launch")
    /\ tpc' = [tpc EXCEPT ![di] = "write"]
    /\ UNCHANGED <<mpc, parseVars, heap, sites, di, scores, noMoreScorers,
                   apc, done, scorers, results, created, resultsFrom>>

\* noMoreScorers <- true
DispNoMore ==
    /\ dpc = "nomore"
    /\ noMoreScorers < noMoreScorersCap
    /\ noMoreScorers' = noMoreScorers + 1
    /\ dpc' = "exit"
    /\ UNCHANGED <<mpc, parseVars, heap, sites, di, tpc, scores, apc, done,
                   scorers, results, created, resultsFrom>>

\* The score a Scorer assigns.
ProbeScore(rec) == 0

\* s.Score = 0
ScoreWrite(i) ==
    /\ i \in DOMAIN tpc
    /\ tpc[i] = "write"
    /\ heap' = [heap EXCEPT ![sites[i]].Score = ProbeScore(heap[sites[i]])]
    /\ tpc' = [tpc EXCEPT ![i] = "send"]
    /\ UNCHANGED <<mpc, parseVars, sites, dpc, di, scores, noMoreScorers,
                   apc, done, scorers, results, created, resultsFrom>>

\* scores <- s
ScoreSend(i) ==
    /\ i \in DOMAIN tpc
    /\ tpc[i] = "send"
    /\ Len(scores) < scoreBufferSize
    /\ scores' = Append(scores, [ptr |-> sites[i], from |-> i])
    /\ tpc' = [tpc EXCEPT ![i] = "exit"]
    /\ UNCHANGED <<mpc, parseVars, heap, sites, dpc, di, noMoreScorers, apc,
                   done, scorers, results, created, resultsFrom>>

\* results := resultsAccumulator(): the locals before the loop.
AccEnter ==
    /\ mpc = "accumulate"
    /\ apc = "idle"
    /\ apc' = "select"
    /\ done' = FALSE
    /\ scorers' = 0
    /\ results' = <<>>
    /\ UNCHANGED <<mpc, parseVars, heap, sites, dpc, di, tpc, scores,
                   noMoreScorers, created, resultsFrom>>

\* The check of the count left out of the noMoreScorers case.
ReturnOnNoMore_Missing(sc) == FALSE

\* The noMoreScorers case returning whatever the count is.
ReturnOnNoMore_Always(sc) == TRUE

\* if scorers == 0 { return results }
ReturnOnNoMore(sc) == sc = 0

\* The check of done left out of the scores case.
ReturnOnScore_IgnoresDone(d, sc) == sc = 0

\* if done && scorers == 0 { return results }
ReturnOnScore(d, sc) == d /\ sc = 0

\* case <-noMoreScorers
AccNoMore ==
    /\ apc = "select"
    /\ noMoreScorers > 0
    /\ noMoreScorers' = noMoreScorers - 1
    /\ done' = TRUE
    /\ apc' = IF ReturnOnNoMore(scorers) THEN "returned" ELSE "select"
    /\ UNCHANGED <<mpc, parseVars, heap, sites, dpc, di, tpc, scores,
                   scorers, results, created, resultsFrom>>

\* The values a read of the record's Score can return: the value in memory,
\* or the value of a write by another goroutine that races with the read.
ScoreReads(ptr) ==
    {heap[ptr].Score}
    \cup { ProbeScore(heap[ptr]) :
             i \in {j \in DOMAIN tpc : sites[j] = ptr /\ tpc[j] = "write"} }

\* case s := <-scores
AccScore ==
    /\ apc = "select"
    /\ scores # <<>>
    /\ scores' = Tail(scores)
    /\ \E v \in ScoreReads(Head(scores).ptr) : results' = Append(results, v)
    /\ resultsFrom' = Append(resultsFrom, Head(scores).from)
    /\ scorers' = scorers - 1
    /\ apc' = IF ReturnOnScore(done, scorers') THEN "returned" ELSE "select"
    /\ UNCHANGED <<mpc, parseVars, heap, sites, dpc, di, tpc, noMoreScorers,
                   done, created>>

\* resultsAccumulator has returned: main logs the results and ends.
MainDone ==
    /\ mpc = "accumulate"
    /\ apc = "returned"
    /\ mpc' = "done"
    /\ UNCHANGED <<parseVars, heap, sites, pipeVars>>

DispatcherNext == DispRange \/ DispLaunch \/ DispNoMore
ScorerNext == \E i \in DOMAIN tpc : ScoreWrite(i) \/ ScoreSend(i)
AccNext == AccEnter \/ AccCreated \/ AccNoMore \/ AccScore

PipelineNext ==
    \/ MainGo \/ MainDone
    \/ DispRange \/ DispLaunch \/ DispNoMore
    \/ (\E i \in DOMAIN tpc : ScoreWrite(i))
    \/ (\E i \in DOMAIN tpc : ScoreSend(i))
    \/ AccEnter \/ AccCreated \/ AccNoMore \/ AccScore

Next == ParseNext \/ PipelineNext

Spec == Init /\ [][Next]_vars

\* scoringDispatcher and resultsAccumulator on any list of site pointers:
\* the state at "go scoringDispatcher(sites)".
InitPipeline ==
    /\ mpc = "dispatch"
    /\ node = NilNode
    /\ consumed = 0
    /\ countryIndex = -1 /\ siteIndex = -1 /\ packageURLIndex = -1
    /\ archIndex = -1 /\ typeIndex = -1 /\ breakIndex = -1
    /\ heap = [a \in Addr |-> NewSite]
    /\ \E n \in 0..MaxSites : sites \in [1..n -> Addr]
    /\ PipeIdle

\* Every goroutine that can run does run, and a select whose case stays
\* ready takes it.
PipelineFairness ==
    /\ WF_vars(MainGo \/ MainDone)
    /\ WF_vars(DispatcherNext)
    /\ \A i \in 1..MaxSites : WF_vars(ScoreWrite(i) \/ ScoreSend(i))
    /\ WF_vars(AccNext)

PipelineSpec == InitPipeline /\ [][PipelineNext]_vars /\ PipelineFairness


\* ------------------------------------------------------------ properties
\* The records the Dispatcher has dispatched so far.
Dispatched == {i \in DOMAIN tpc : tpc[i] # "none"}

\* The records whose score the Accumulator has received.
Received == {resultsFrom[k] : k \in DOMAIN resultsFrom}

\* C1: for every list of sites (empty, or longer than the scores buffer)
\* and every fair interleaving of the Dispatcher, the score goroutines and
\* the Accumulator, resultsAccumulator eventually returns.
C1_AccumulatorReturns == <>(apc = "returned")

\* C1 witness: the Accumulator has returned on a list longer than the
\* scores buffer, with every score folded in.
C1_Witness ==
    /\ apc = "returned"
    /\ Len(sites) > scoreBufferSize
    /\ Len(results) = Len(sites)

\* C2: whenever resultsAccumulator has returned it has received the
\* no-more-work signal, and the number of scores folded into the result
\* equals the number of creation signals received, which equals the number
\* of records the Dispatcher dispatched.
C2_NoEarlyReturn ==
    apc = "returned" =>
        /\ done
        /\ Len(results) = created
        /\ created = Cardinality(Dispatched)
        /\ dpc = "exit"

\* C2 witness: the Accumulator has returned after several records.
C2_Witness == apc = "returned" /\ done /\ created >= 2 /\ Len(results) >= 2

\* C3: the Accumulator has counted the creation signal of a dispatched
\* record before that record's goroutine exists, hence before its score can
\* be received: the i-th launched goroutine implies at least i counted
\* creation signals.
C3_CreationBeforeScore ==
    \A i \in DOMAIN tpc :
        (tpc[i] # "none" \/ i \in Received) =>
            created >= Cardinality({j \in Dispatched : j <= i})

\* C3 witness: the score of the second record has been received.
C3_Witness == 2 \in Received /\ created >= 2

\* C4: the outstanding count of the Accumulator is never negative.
C4_ScorersNonNegative == scorers >= 0

\* C4 witness: a score has been received and brought the count back to 0
\* while the Accumulator keeps collecting.
C4_Witness == results # <<>> /\ scorers = 0 /\ apc = "select"

\* C5: the entries of the site list main hands to scoringDispatcher are
\* pairwise distinct records, and at every moment a record is written by at
\* most one in-flight score goroutine.
C5_RecordsNotShared ==
    /\ mpc \in {"dispatch", "accumulate", "done"} =>
          \A i, j \in DOMAIN sites : i # j => sites[i] # sites[j]
    /\ \A i, j \in DOMAIN tpc :
          (i # j /\ tpc[i] \in {"write", "send"} /\ tpc[j] \in {"write", "send"})
              => sites[i] # sites[j]

\* C6: the result resultsAccumulator returns is sorted ascending by score,
\* and entries of equal score appear in the discovery order of their
\* records.
C6_SortedStable ==
    apc = "returned" =>
        \A a, b \in DOMAIN results :
            a < b =>
                \/ results[a] < results[b]
                \/ results[a] = results[b] /\ resultsFrom[a] < resultsFrom[b]

\* The selection policy of the Criteria Filter: the architecture and the
\* protocols a record must serve.
PolicyArchitecture == <<"amd64">>
PolicyProtocols == {<<"HTTPS">>}

CriteriaFilter(rec) ==
    /\ \E k \in DOMAIN rec.Architectures :
          rec.Architectures[k] = PolicyArchitecture
    /\ PolicyProtocols \subseteq DOMAIN rec.PackProtocols

\* C7: a record is dispatched if and only if it passes the Criteria Filter;
\* a record with no protocol endpoint is never dispatched under a policy
\* that requires a protocol.
C7_DispatchedIffFilter ==
    \A i \in DOMAIN tpc :
        /\ tpc[i] # "none" => CriteriaFilter(heap[sites[i]])
        /\ (dpc \in {"nomore", "exit"} /\ CriteriaFilter(heap[sites[i]]))
              => tpc[i] # "none"

\* C8: when the parsing loop ends, the number of emitted records equals the
\* number of SiteStart tokens, also when there is none.
C8_RecordsEqualSiteStarts ==
    mpc = "dispatch" => Len(sites) = siteIndex + 1

\* A package URL, architectures or type marker has been taken while no
\* site was open.
OrphanMarker ==
    siteIndex = -1 /\ (packageURLIndex >= 0 \/ archIndex >= 0 \/ typeIndex >= 0)

\* C9: a ProtocolURL, Architectures or Type token with no open record ends
\* the run in the fatal MalformedDirectory outcome: not accepted, no crash.
C9_OrphanIsFatal == OrphanMarker => mpc = "fatal"

\* What the parser assembles into a record.
Content(rec) ==
    <<rec.Hosts, rec.SiteType, rec.Architectures, rec.mapNil,
      rec.PackProtocols>>

\* C10: an emitted record holds the tokens of its own SiteStart: no later
\* SiteStart or token changes a record that is already in the list.
C10_EmittedRecordsFrozen ==
    [][\A i \in DOMAIN sites :
          Content(heap'[sites'[i]]) = Content(heap[sites[i]])]_vars


\* The records the Dispatcher dispatches in the whole run.
ToDispatch == {i \in DOMAIN sites : MatchesCriteria(heap[sites[i]])}

\* C11 as stated: in a run that dispatches several records, the
\* Accumulator has observed all of the creation signals before it observes
\* any score.
C11_AllCreationsBeforeAnyScore ==
    (mpc \in {"accumulate", "done"} /\ results # <<>>)
        => created = Cardinality(ToDispatch)

\* C11 amended: the Accumulator observes its k-th score only after it has
\* observed at least k creation signals.
C11_ScoreAfterAsManyCreations ==
    [][Len(results') > Len(results) => created >= Len(results')]_vars

\* C11 witness: a score has been observed while creation signals of later
\* records are still to come, in a run of three records.
C11_Witness ==
    /\ Cardinality(ToDispatch) = 3
    /\ mpc = "accumulate"
    /\ results # <<>>
    /\ created < Cardinality(ToDispatch)

\* The network: a host without a name cannot be reached, and the probe of
\* a record fails when none of its hosts can be.
Reachable(host) == host # <<>>
ProbeFails(rec) == \A k \in DOMAIN rec.Hosts : ~Reachable(rec.Hosts[k])

\* A record whose probe succeeds.
ReachableSite == [NewSite EXCEPT !.Hosts = << <<"a">> >>]

\* C12: a record whose probe fails gets the distinguished worst score (on
\* the ascending scale, worse than the score of a record that is reached)
\* and is still delivered: the run completes with every dispatched record
\* in the result.
C12_FailedProbeWorstScore ==
    /\ \A k \in DOMAIN results :
          ProbeFails(heap[sites[resultsFrom[k]]])
              => results[k] > ProbeScore(ReachableSite)
    /\ apc = "returned" => Received = Dispatched

\* C13: a SiteStart whose payload node is missing or is not a <tt> ends
\* the run in the fatal outcome, with nothing dispatched and no output, and
\* the run stays there.
C13_BadSitePayloadIsFatal ==
    [][/\ (siteIndex' = siteIndex + 1 /\ (node' = NilNode \/ ~IsTT(node')))
            => (mpc' = "fatal" /\ PipeIdle')
       /\ mpc = "fatal" => (mpc' = "fatal" /\ PipeIdle')]_vars

\* C13 witness: the run has ended at a SiteStart whose payload is a node of
\* the wrong shape.
C13_Witness ==
    /\ mpc = "fatal"
    /\ siteIndex >= 0
    /\ ~s.mapNil /\ s.Hosts = <<>>
    /\ node # NilNode /\ ~IsTT(node)

\* C14: every emitted record has at least one host, and a site that
\* declares no host is not emitted.
C14_EmittedHasHost ==
    mpc \in {"dispatch", "accumulate", "done"} =>
        \A i \in DOMAIN sites :
            /\ heap[sites[i]].Hosts # <<>>
            /\ \A k \in DOMAIN heap[sites[i]].Hosts :
                  heap[sites[i]].Hosts[k] # <<>>

\* The writes of Score to the record at an address, and the sends of a
\* score goroutine, so far.
ScoreWrites(a) ==
    Cardinality({i \in DOMAIN tpc : sites[i] = a /\ tpc[i] \in {"send", "exit"}})
Sends(i) ==
    Cardinality({k \in DOMAIN scores : scores[k].from = i})
    + Cardinality({k \in DOMAIN resultsFrom : resultsFrom[k] = i})

\* C15: the score of a record is written once in the whole run, by the one
\* goroutine that owns it, and each launched goroutine sends once.
C15_ScoreWrittenOnce ==
    /\ \A a \in Addr : ScoreWrites(a) <= 1
    /\ \A i \in DOMAIN tpc : Sends(i) = IF tpc[i] = "exit" THEN 1 ELSE 0
    /\ apc = "returned" => \A i \in Dispatched : ScoreWrites(sites[i]) = 1

\* The sends on noMoreScorers so far: the value queued or already received.
NoMoreSent == noMoreScorers + IF apc # "idle" /\ done THEN 1 ELSE 0

\* C16: scoringDispatcher sends the no-more-work signal exactly once, only
\* after the Accumulator has received the creation signal of every
\* dispatched record, and the send does not block.
C16_NoMoreOnceAfterCreations ==
    /\ NoMoreSent = IF dpc = "exit" THEN 1 ELSE 0
    /\ dpc \in {"nomore", "exit"} =>
          /\ di = Len(sites)
          /\ created = Cardinality(ToDispatch)
    /\ dpc = "nomore" => noMoreScorers < noMoreScorersCap

\* C16 witness: the Dispatcher has exited after several records and its
\* signal waits in the channel.
C16_Witness == dpc = "exit" /\ noMoreScorers = 1 /\ created >= 2

\* C17: after parsing, every key of a record's protocol map is bound to a
\* resolved endpoint, whatever protocol the directory declares.
C17_NoNilEndpoint ==
    mpc \in {"dispatch", "accumulate", "done"} =>
        \A i \in DOMAIN sites :
            \A k \in DOMAIN heap[sites[i]].PackProtocols :
                ~heap[sites[i]].PackProtocols[k].nil

\* The score goroutines that are launched and whose score is not received.
InFlight ==
    Cardinality({i \in DOMAIN tpc : tpc[i] \in {"write", "send"}}) + Len(scores)

\* C18: scorers is the number of creation signals received minus the number
\* of scores received, and bounds the goroutines whose score is pending.
C18_ScorersAccounting ==
    /\ scorers = created - Len(results)
    /\ InFlight <= scorers

\* C18 witness: the buffer is full and a goroutine waits to send.
C18_Witness ==
    /\ Len(scores) = scoreBufferSize
    /\ \E i \in DOMAIN tpc : tpc[i] = "send"
    /\ scorers = InFlight

\* C19: when resultsAccumulator has returned the pipeline is quiescent: the
\* scores buffer is empty, every score goroutine has exited and the
\* Dispatcher has no send pending.
C19_QuiescentOnReturn ==
    apc = "returned" =>
        /\ scores = <<>>
        /\ \A i \in DOMAIN tpc : tpc[i] = "exit"
        /\ noMoreScorers = 0
        /\ dpc = "exit"

\* C19 witness: the Accumulator has returned after several goroutines.
C19_Witness ==
    /\ apc = "returned"
    /\ Len(sites) >= 2
    /\ \A i \in DOMAIN tpc : tpc[i] = "exit"

====
